---- MODULE Spec2Model ----
(***************************************************************************)
(* kimage: an image host made of a server (src/bin/serve.rs: POST /upload  *)
(* and GET /{filename}) and an upload client (src/bin/upload.rs).          *)
(*                                                                         *)
(* Bytes are integers 0..255 and byte strings are sequences of them.       *)
(* Base64 text is a sequence of symbol codes: 0..63 is the letter of the   *)
(* standard alphabet with that value, Pad is '=', Bad is any byte that is  *)
(* outside the alphabet.                                                   *)
(***************************************************************************)
EXTENDS Integers, Sequences, FiniteSets, TLC

---------------------------------------------------------------------------
(* Standard base64 (general_purpose::STANDARD: standard alphabet, canonical *)
(* padding required, no trailing bits allowed).                             *)

Pad == 64
Bad == 65

RECURSIVE Base64Encode(_)
Base64Encode(b) ==
    IF Len(b) = 0 THEN << >>
    ELSE IF Len(b) = 1 THEN
        << b[1] \div 4, (b[1] % 4) * 16, Pad, Pad >>
    ELSE IF Len(b) = 2 THEN
        << b[1] \div 4, (b[1] % 4) * 16 + (b[2] \div 16), (b[2] % 16) * 4, Pad >>
    ELSE
        << b[1] \div 4,
           (b[1] % 4) * 16 + (b[2] \div 16),
           (b[2] % 16) * 4 + (b[3] \div 64),
           b[3] % 64 >> \o Base64Encode(SubSeq(b, 4, Len(b)))

IsSextet(c) == c >= 0 /\ c < 64

\* DecodeQuad accepting non-zero trailing bits in a padded quad
DecodeQuad_lenient(q, last) ==
    LET b1 == q[1] * 4 + (q[2] \div 16)
        b2 == (q[2] % 16) * 16 + (q[3] \div 4)
        b3 == (q[3] % 4) * 64 + q[4]
    IN  IF IsSextet(q[1]) /\ IsSextet(q[2]) /\ IsSextet(q[3]) /\ IsSextet(q[4])
        THEN [ok |-> TRUE, bytes |-> << b1, b2, b3 >>]
        ELSE IF last /\ IsSextet(q[1]) /\ IsSextet(q[2]) /\ IsSextet(q[3]) /\ q[4] = Pad
        THEN [ok |-> TRUE, bytes |-> << b1, b2 >>]
        ELSE IF last /\ IsSextet(q[1]) /\ IsSextet(q[2]) /\ q[3] = Pad /\ q[4] = Pad
        THEN [ok |-> TRUE, bytes |-> << b1 >>]
        ELSE [ok |-> FALSE, bytes |-> << >>]

\* the bytes of one quad of text; q is the last quad of the text iff last
DecodeQuad(q, last) ==
    LET b1 == q[1] * 4 + (q[2] \div 16)
        b2 == (q[2] % 16) * 16 + (q[3] \div 4)
        b3 == (q[3] % 4) * 64 + q[4]
    IN  IF IsSextet(q[1]) /\ IsSextet(q[2]) /\ IsSextet(q[3]) /\ IsSextet(q[4])
        THEN [ok |-> TRUE, bytes |-> << b1, b2, b3 >>]
        ELSE IF last /\ IsSextet(q[1]) /\ IsSextet(q[2]) /\ IsSextet(q[3])
                /\ q[4] = Pad /\ q[3] % 4 = 0
        THEN [ok |-> TRUE, bytes |-> << b1, b2 >>]
        ELSE IF last /\ IsSextet(q[1]) /\ IsSextet(q[2])
                /\ q[3] = Pad /\ q[4] = Pad /\ q[2] % 16 = 0
        THEN [ok |-> TRUE, bytes |-> << b1 >>]
        ELSE [ok |-> FALSE, bytes |-> << >>]

RECURSIVE Base64Decode(_)
Base64Decode(t) ==
    IF Len(t) = 0 THEN [ok |-> TRUE, bytes |-> << >>]
    ELSE IF Len(t) < 4 THEN [ok |-> FALSE, bytes |-> << >>]
    ELSE
        LET q    == DecodeQuad(SubSeq(t, 1, 4), Len(t) = 4)
            rest == Base64Decode(SubSeq(t, 5, Len(t)))
        IN  IF q.ok /\ rest.ok
            THEN [ok |-> TRUE, bytes |-> q.bytes \o rest.bytes]
            ELSE [ok |-> FALSE, bytes |-> << >>]

---------------------------------------------------------------------------
(* Bounds of the model.                                                     *)

\* longest multipart body, in fields
MaxFields == 2

\* requests the server handles concurrently
NumProcs == 2

\* longest image, in bytes
MaxLen == 4

\* the image byte strings uploaded: the prefixes of Pattern up to MaxLen
\* bytes, so every length class of base64 (0, 1, 2 mod 3) and more than one
\* quad occur, and a short write of one image is another one
Pattern == << 77, 255, 3, 16, 200, 9 >>
Images  == { SubSeq(Pattern, 1, n) : n \in 0..MaxLen }

\* texts that are not standard base64: a byte outside the alphabet, missing
\* padding, non-zero trailing bits
BadTexts == { << 19, 22, 5, Bad >>, << 63, 48 >>, << 63, 49, Pad, Pad >> }

\* the names generate_filename can return; two, so that both a fresh name
\* and a repeated one occur
Names == { "a.png", "b.png" }

\* a name generate_filename never returns
OtherName == "index.html"

\* a filename that is no name but a path: joined to storage_path
\* (<home>/images) it is the path of the config file, <home>/.config/kimage.toml
ConfigPath  == "../.config/kimage.toml"
ConfigBytes == << 97, 112, 105 >>

---------------------------------------------------------------------------
(* Config (serve.rs) and the requests.                                      *)

api_key    == "secret"
server_url == "http://host"

NoHeader == "<absent>"
NonStr   == "<not a visible-ascii string>"
Headers  == { NoHeader, NonStr, api_key, "guess" }

Texts == { Base64Encode(b) : b \in Images } \cup BadTexts

ImageFields == { [hasName |-> TRUE, name |-> "image", text |-> t] : t \in Texts }
OtherFields == { [hasName |-> TRUE,  name |-> "file", text |-> Base64Encode(<< 255 >>)],
                 [hasName |-> FALSE, name |-> "",     text |-> Base64Encode(<< 255 >>)] }
Fields == ImageFields \cup OtherFields

Bodies == UNION { [1..n -> Fields] : n \in 0..MaxFields }

NoBytes == << >>
NoUrl   == << >>
Absent  == [exists |-> FALSE, bytes |-> NoBytes]
File(b) == [exists |-> TRUE, bytes |-> b]

UploadRequests ==
    { [kind |-> "upload", header |-> h, fields |-> f, filename |-> "/upload"] :
        h \in Headers, f \in Bodies }
GetRequests ==
    { [kind |-> "get", header |-> NoHeader, fields |-> << >>, filename |-> n] :
        n \in Names \cup {OtherName, ConfigPath} }
NoRequest ==
    [kind |-> "none", header |-> NoHeader, fields |-> << >>, filename |-> ""]

\* the outcomes of the I/O a handler performs: reading the config file,
\* the chunks of the image field, File::create + write_all of fs::write,
\* fs::read
WriteOutcomes == { "ok", "create_failed", "write_failed" }
NoFault == [cfgOk |-> TRUE, chunksOk |-> TRUE, name |-> "", write |-> "ok", written |-> 0,
            readOk |-> TRUE]

VARIABLES
    storage,    \* the files a filename joined to storage_path can name:
                \* filename -> Absent or File(bytes)
    req,        \* the request handled last
    io,         \* the I/O outcomes met while handling it
    resp,       \* the response to it
    issued,     \* the name and image bytes of the first upload answered 200
                \* (history, read by no handler)
    cpc,        \* upload client: the step main() is at
    cl,         \* upload client: the locals of main()
    clipboard,  \* the system clipboard
    clip0,      \* the clipboard when the client run started (history)
    exitCode,   \* upload client: the exit status, -1 while it runs
    posts,      \* upload client: the POSTs sent in this run
    procs       \* concurrent server: task -> its position and locals

server == << storage, req, io, resp, issued >>
client == << cpc, cl, clipboard, clip0, exitCode, posts >>
vars   == << server, client, procs >>

---------------------------------------------------------------------------
(* load_config: the Config, or the failure of reading or parsing the file.  *)

load_config(cfgOk) ==
    IF cfgOk
    THEN [ok |-> TRUE,  api_key |-> api_key, server_url |-> server_url]
    ELSE [ok |-> FALSE, api_key |-> "",      server_url |-> ""]

\* req.headers().get("Authorization").and_then(|h| h.to_str().ok())
auth_header(r) ==
    IF r.header \in { NoHeader, NonStr }
    THEN [some |-> FALSE, value |-> ""]
    ELSE [some |-> TRUE,  value |-> r.header]

\* key_matches with the comparison lost
key_matches_any(value, key) == TRUE

\* auth_header != config.api_key, negated
key_matches(value, key) == value = key

\* FirstImageFrom taking the first named field, whatever its name
RECURSIVE FirstImageFrom_anyname(_, _)
FirstImageFrom_anyname(fields, i) ==
    IF i > Len(fields) THEN 0
    ELSE IF fields[i].hasName THEN i
    ELSE FirstImageFrom_anyname(fields, i + 1)

\* the index of the first field named "image", 0 when there is none
RECURSIVE FirstImageFrom(_, _)
FirstImageFrom(fields, i) ==
    IF i > Len(fields) THEN 0
    ELSE IF fields[i].hasName /\ fields[i].name = "image" THEN i
    ELSE FirstImageFrom(fields, i + 1)

FirstImage(fields) == FirstImageFrom(fields, 1)

\* fs::write(path, bytes): File::create (create or truncate) then write_all
fs_write(st, name, bytes, outcome, written) ==
    IF outcome = "ok" THEN [ok |-> TRUE, storage |-> [st EXCEPT ![name] = File(bytes)]]
    ELSE IF outcome = "create_failed" THEN [ok |-> FALSE, storage |-> st]
    ELSE [ok |-> FALSE,
          storage |-> [st EXCEPT ![name] = File(SubSeq(bytes, 1, written))]]

Response(status, url, ctype, body) ==
    [status |-> status, url |-> url, ctype |-> ctype, body |-> body]

Reply(status, step, st) ==
    [resp |-> Response(status, NoUrl, "", NoBytes), step |-> step, storage |-> st]

\* the name the handler writes to: generate_filename is called only after a
\* successful decode
Generated(r, e) ==
    LET i == FirstImage(r.fields)
    IN  /\ e.cfgOk
        /\ r.header = api_key
        /\ i # 0
        /\ e.chunksOk
        /\ Base64Decode(r.fields[i].text).ok

\* upload reading the multipart body before it checks the Authorization header
upload_body_first(st, r, e, name) ==
    LET config == load_config(e.cfgOk)
        auth   == auth_header(r)
        i      == FirstImage(r.fields)
    IN  IF ~config.ok THEN Reply(500, "config", st)
        ELSE IF i = 0 THEN Reply(400, "fields", st)
        ELSE IF ~e.chunksOk THEN Reply(500, "chunks", st)
        ELSE IF ~Base64Decode(r.fields[i].text).ok THEN Reply(400, "decode", st)
        ELSE IF ~auth.some THEN Reply(401, "header", st)
        ELSE IF ~key_matches(auth.value, config.api_key) THEN Reply(401, "key", st)
        ELSE
            LET decoded == Base64Decode(r.fields[i].text)
                wr      == fs_write(st, name, decoded.bytes, e.write, e.written)
            IN  IF ~wr.ok THEN Reply(500, "write", wr.storage)
                ELSE [resp    |-> Response(200, << config.server_url, name >>, "application/json", NoBytes),
                      step    |-> "done",
                      storage |-> wr.storage]

\* the upload handler: the response, the step that decided it and the
\* storage it leaves; name is what generate_filename returns
upload(st, r, e, name) ==
    LET config == load_config(e.cfgOk)
        auth   == auth_header(r)
        i      == FirstImage(r.fields)
    IN  IF ~config.ok THEN Reply(500, "config", st)
        ELSE IF ~auth.some THEN Reply(401, "header", st)
        ELSE IF ~key_matches(auth.value, config.api_key) THEN Reply(401, "key", st)
        ELSE IF i = 0 THEN Reply(400, "fields", st)
        ELSE IF ~e.chunksOk THEN Reply(500, "chunks", st)
        ELSE
            LET decoded == Base64Decode(r.fields[i].text)
                wr      == fs_write(st, name, decoded.bytes, e.write, e.written)
            IN  IF ~decoded.ok THEN Reply(400, "decode", st)
                ELSE IF ~wr.ok THEN Reply(500, "write", wr.storage)
                ELSE [resp    |-> Response(200, << config.server_url, name >>, "application/json", NoBytes),
                      step    |-> "done",
                      storage |-> wr.storage]

\* the serve handler
serve_image(st, filename, e) ==
    LET config == load_config(e.cfgOk)
    IN  IF ~config.ok THEN Response(500, NoUrl, "", NoBytes)
        ELSE IF st[filename].exists THEN
            IF ~e.readOk THEN Response(500, NoUrl, "", NoBytes)
            ELSE Response(200, NoUrl, "image/png", st[filename].bytes)
        ELSE Response(404, NoUrl, "", NoBytes)

-------------------------------------------------------------------------------------------------------------------------------------------------
(* The server, one request at a time: the framework hands a request to its  *)
(* handler (Accept), the handler runs (Upload, Serve), the response is sent *)
(* and the worker is free again (Complete).                                 *)

AllNames == Names \cup {OtherName, ConfigPath}

\* the names of files directly under storage_path
PlainNames == Names \cup {OtherName}

\* the storage directory is empty; the config file exists
InitStorage == [n \in AllNames |-> IF n = ConfigPath THEN File(ConfigBytes) ELSE Absent]

NoResponse == Response(0, NoUrl, "", NoBytes)
NoUpload   == [name |-> "", bytes |-> NoBytes]

Procs == 1..NumProcs

\* a task that has not been given its request
IdleProc ==
    [pc |-> "idle", r |-> NoRequest, e |-> NoFault, bytes |-> NoBytes, resp |-> NoResponse]

NoLocals ==
    [path |-> "", data |-> "", pixels |-> "", png |-> NoBytes, sent |-> NoBytes,
     status |-> 0, body |-> "", bodyUrl |-> "", url |-> ""]

\* main() of the server has loaded the config and bound the port, nothing is
\* stored yet; the client has not been started
Init ==
    /\ storage   = InitStorage
    /\ req       = NoRequest
    /\ io        = NoFault
    /\ resp      = NoResponse
    /\ issued    = NoUpload
    /\ cpc       = "idle"
    /\ cl        = NoLocals
    /\ clipboard = "earlier text"
    /\ clip0     = "earlier text"
    /\ exitCode  = -1
    /\ posts     = 0
    /\ procs     = [p \in Procs |-> IdleProc]

Idle    == req.kind = "none"
Pending == req.kind # "none" /\ resp = NoResponse
Handled == resp # NoResponse

Accept ==
    /\ Idle
    /\ \E r \in UploadRequests \cup GetRequests : req' = r
    /\ UNCHANGED << storage, io, resp, issued, client, procs >>

\* generate_filename: ten random alphanumeric characters and ".png"
generate_filename == Names

\* the I/O outcomes around an upload: whether the config file loads, whether
\* the chunks of a field arrive, what a write to the storage directory does
\* (written: the bytes that fit before write_all fails) and the name
\* generate_filename returns when it is called
UploadFaults(r) ==
    { e \in [cfgOk : BOOLEAN, chunksOk : BOOLEAN, name : generate_filename \cup {""},
             write : WriteOutcomes, written : 0..MaxLen, readOk : {TRUE}] :
        LET writes  == Generated(r, e)
            decoded == IF writes THEN Base64Decode(r.fields[FirstImage(r.fields)].text).bytes
                       ELSE NoBytes
        IN  /\ writes <=> e.name # ""
            /\ (writes /\ e.write = "write_failed") => e.written < Len(decoded)
            /\ ~(writes /\ e.write = "write_failed") => e.written = 0 }

UploadHandler ==
    /\ Pending
    /\ req.kind = "upload"
    /\ \E e \in UploadFaults(req) :
        LET out == upload(storage, req, e, e.name)
        IN  /\ storage' = out.storage
            /\ io'      = e
            /\ resp'    = out.resp
    /\ UNCHANGED req

Upload == UploadHandler /\ UNCHANGED << issued, client, procs >>

ServeFaults(st, filename) ==
    { e \in [cfgOk : BOOLEAN, chunksOk : {TRUE}, name : {""}, write : {"ok"}, written : {0},
             readOk : BOOLEAN] :
        (~e.cfgOk \/ ~st[filename].exists) => e.readOk }

Serve ==
    /\ Pending
    /\ req.kind = "get"
    /\ \E e \in ServeFaults(storage, req.filename) :
        /\ io'   = e
        /\ resp' = serve_image(storage, req.filename, e)
    /\ UNCHANGED << storage, req, issued, client, procs >>

Complete ==
    /\ Handled
    /\ req'  = NoRequest
    /\ io'   = NoFault
    /\ resp' = NoResponse
    /\ UNCHANGED << storage, issued, client, procs >>

Next == Accept \/ Upload \/ Serve \/ Complete

Spec == Init /\ [][Next]_vars

---------------------------------------------------------------------------
(* What a handled request looked like.                                      *)

HandledUpload == Handled /\ req.kind = "upload"
HandledGet    == Handled /\ req.kind = "get"

\* the step in which the upload handler answers the pending request
UploadStep == req.kind = "upload" /\ resp = NoResponse /\ resp' # NoResponse

HasImage(r)  == \E i \in 1..Len(r.fields) : r.fields[i].hasName /\ r.fields[i].name = "image"
\* the text of the first field named image
ImageText(r) ==
    r.fields[CHOOSE i \in 1..Len(r.fields) :
                /\ r.fields[i].hasName /\ r.fields[i].name = "image"
                /\ \A j \in 1..(i - 1) : ~(r.fields[j].hasName /\ r.fields[j].name = "image")].text

Authorized(r) == r.header = api_key

---------------------------------------------------------------------------
\* C2 as stated: a POST /upload whose Authorization header is not the
\* configured api_key is answered 401 and writes no file, whatever its body.
C2_Unauthorized401 ==
    [][ (UploadStep /\ ~Authorized(req)) =>
            (resp'.status = 401 /\ storage' = storage) ]_vars

\* C2, amended: a POST /upload whose Authorization header is missing or not
\* the configured api_key writes no file, whatever its body, and is answered
\* 401 when the config file loads and 500 when it does not.
C2_UnauthorizedRejected ==
    [][ (UploadStep /\ ~Authorized(req)) =>
            /\ storage' = storage
            /\ io'.cfgOk  => resp'.status = 401
            /\ ~io'.cfgOk => resp'.status = 500 ]_vars

\* an unauthorized upload of a well-formed image, with a working disk, was
\* answered 401
C2_Witness ==
    /\ HandledUpload
    /\ req.header = "guess"
    /\ HasImage(req)
    /\ ImageText(req) = Base64Encode(<< 77, 255 >>)
    /\ io.cfgOk /\ io.chunksOk /\ io.write = "ok"
    /\ resp.status = 401

---------------------------------------------------------------------------
\* C3 as stated: a POST /upload whose multipart body has no field named
\* image is answered 400, whatever other fields it has.
C3_NoImage400 ==
    (HandledUpload /\ ~HasImage(req)) => resp.status = 400

\* C3, amended: a POST /upload whose multipart body has no field named image
\* is answered 400, whatever other fields it has, when the config file loads
\* and the Authorization header equals api_key; it is answered 500 when the
\* config file does not load and 401 when it loads and the header is missing
\* or different.
C3_NoImageOutcome ==
    (HandledUpload /\ ~HasImage(req)) =>
        resp.status = IF ~io.cfgOk THEN 500
                      ELSE IF ~Authorized(req) THEN 401
                      ELSE 400

\* an authorized upload with two fields, neither named image, was answered 400
C3_Witness ==
    /\ HandledUpload
    /\ Authorized(req) /\ io.cfgOk
    /\ Len(req.fields) = 2
    /\ req.fields[1].hasName /\ req.fields[1].name = "file"
    /\ ~req.fields[2].hasName
    /\ resp.status = 400

---------------------------------------------------------------------------
\* C4 as stated: a POST /upload whose image field holds a byte string that
\* is not standard base64 is answered 400.
C4_BadBase64_400 ==
    (HandledUpload /\ HasImage(req) /\ ImageText(req) \in BadTexts) => resp.status = 400

\* C4, amended: a POST /upload whose first field named image holds a byte
\* string that is not standard base64 is answered 400 when the config file
\* loads, the Authorization header equals api_key and the chunks of the field
\* are read without error; otherwise the earlier check decides: 500 (config),
\* 401 (header), 500 (chunk read).
C4_BadBase64Outcome ==
    (HandledUpload /\ HasImage(req) /\ ImageText(req) \in BadTexts) =>
        /\ resp.status = IF ~io.cfgOk THEN 500
                         ELSE IF ~Authorized(req) THEN 401
                         ELSE IF ~io.chunksOk THEN 500
                         ELSE 400
        /\ resp.url = NoUrl

\* an authorized upload whose image text has non-zero trailing bits was
\* answered 400
C4_Witness ==
    /\ HandledUpload
    /\ Authorized(req) /\ io.cfgOk /\ io.chunksOk
    /\ req.fields = << [hasName |-> TRUE, name |-> "image", text |-> << 63, 49, Pad, Pad >>] >>
    /\ resp.status = 400

---------------------------------------------------------------------------
\* C5: GET /<filename> is answered 404 when no file named <filename> is
\* stored under storage_path and 200 with content-type image/png and the
\* stored bytes when one is; it is never answered 200 for a file that no
\* upload wrote (stated for requests that meet no I/O fault).
C5_ServeFoundOrNot ==
    (HandledGet /\ io.cfgOk /\ io.readOk) =>
        LET stored == req.filename \in PlainNames /\ storage[req.filename].exists
        IN  /\ ~stored => resp.status = 404
            /\ stored =>
                  /\ resp.status = 200
                  /\ resp.ctype = "image/png"
                  /\ resp.body = storage[req.filename].bytes
            /\ resp.status = 200 => (stored /\ req.filename \in Names)

---------------------------------------------------------------------------
\* C9: the upload handler's checks decide in order: a config that does not
\* load gives 500 whatever the header; then a missing or different
\* Authorization header gives 401 whatever the body and the disk; 400 (no
\* image field, or undecodable base64) is given only to an authorized
\* request; and a 500 for a failed write is given only after the image text
\* has decoded.
C9_ChecksInOrder ==
    HandledUpload =>
        LET bad == HasImage(req) /\ ImageText(req) \in BadTexts
        IN  /\ ~io.cfgOk => resp.status = 500
            /\ (io.cfgOk /\ ~Authorized(req)) => resp.status = 401
            /\ resp.status = 400 =>
                  /\ io.cfgOk /\ Authorized(req)
                  /\ ~HasImage(req) \/ (io.chunksOk /\ bad)
            /\ (resp.status = 500 /\ io.cfgOk) =>
                  /\ Authorized(req) /\ HasImage(req)
                  /\ ~io.chunksOk \/ (~bad /\ io.write # "ok")
            /\ resp.status = 200 =>
                  /\ io.cfgOk /\ Authorized(req) /\ HasImage(req)
                  /\ io.chunksOk /\ ~bad /\ io.write = "ok"

\* a request both unauthorized and malformed, met by a failing disk, was
\* answered 401
C9_Witness ==
    /\ HandledUpload
    /\ io.cfgOk /\ ~io.chunksOk /\ io.write = "create_failed"
    /\ req.header = NoHeader
    /\ HasImage(req) /\ ImageText(req) \in BadTexts
    /\ resp.status = 401

---------------------------------------------------------------------------
\* the image bytes a well-formed text stands for
ImageOf(text) == CHOOSE b \in Images : Base64Encode(b) = text

\* C7: once a file is stored, no later request changes or removes it.
C7_StoredImmutable ==
    [][ \A n \in AllNames : storage[n].exists => storage'[n] = storage[n] ]_vars

\* C8: an upload answered 200 has written exactly one file, the decoded
\* bytes under the name of the returned URL, and an upload answered 400, 401
\* or 500 has left the storage as it was.
C8_WriteEffect ==
    [][ UploadStep =>
          /\ resp'.status = 200 =>
                \E n \in Names :
                    /\ resp'.url = << server_url, n >>
                    /\ storage' = [storage EXCEPT ![n] = File(ImageOf(ImageText(req)))]
          /\ resp'.status \in { 400, 401, 500 } => storage' = storage ]_vars

---------------------------------------------------------------------------
(* The round trip: the same server, fed well-formed authorized uploads and  *)
(* GETs, with the first successful upload remembered in issued.             *)

WellFormedUploads ==
    { r \in UploadRequests :
        /\ r.header = api_key
        /\ Len(r.fields) = 1
        /\ r.fields[1].hasName /\ r.fields[1].name = "image"
        /\ \E b \in Images : r.fields[1].text = Base64Encode(b) }

AcceptRT ==
    /\ Idle
    /\ \E r \in WellFormedUploads \cup GetRequests : req' = r
    /\ UNCHANGED << storage, io, resp, issued, client, procs >>

UploadRT ==
    /\ UploadHandler
    /\ issued' = IF resp'.status = 200 /\ issued = NoUpload
                 THEN [name |-> resp'.url[2], bytes |-> ImageOf(req.fields[1].text)]
                 ELSE issued
    /\ UNCHANGED << client, procs >>

NextRT == AcceptRT \/ UploadRT \/ Serve \/ Complete

SpecRT == Init /\ [][NextRT]_vars

\* C1: an authorized upload of the standard base64 of image_bytes is
\* answered 200 with the URL <server_url>/<filename>, and a later GET of
\* <filename>, after any other uploads and GETs, is answered 200 with exactly
\* image_bytes (stated for requests that meet no I/O fault, and for the first
\* upload answered 200).
C1_RoundTrip ==
    /\ (HandledUpload /\ req \in WellFormedUploads
            /\ io.cfgOk /\ io.chunksOk /\ io.write = "ok") =>
          /\ resp.status = 200
          /\ \E n \in Names : resp.url = << server_url, n >>
    /\ (HandledGet /\ issued # NoUpload /\ req.filename = issued.name
            /\ io.cfgOk /\ io.readOk) =>
          /\ resp.status = 200
          /\ resp.body = issued.bytes

---------------------------------------------------------------------------
(* The upload client (upload.rs), one statement of main() per action.       *)

\* the image_path arguments: no such file, a file that is no image, a JPEG
\* and a PNG of the same picture
Paths == { "missing.png", "notes.txt", "cat.jpg", "cat.png" }

\* what the server at server_url may answer: the status, and a body that is
\* a JSON object with a string url, a JSON object without url, a JSON object
\* whose url is a number, or no JSON at all
Statuses   == { 200, 201, 401, 500 }
BodyKinds  == { "url", "no url", "url not a string", "not json" }
Urls       == { "http://host/a.png", "http://host/b.png" }

\* fs::read
read_file(path) ==
    IF path = "missing.png" THEN [ok |-> FALSE, data |-> ""]
    ELSE [ok |-> TRUE, data |-> path]

\* image::load_from_memory
load_from_memory(data) ==
    IF data \in { "cat.jpg", "cat.png" } THEN [ok |-> TRUE, pixels |-> "cat"]
    ELSE [ok |-> FALSE, pixels |-> ""]

\* img.write_to(.., ImageOutputFormat::Png): the PNG bytes of the picture
write_png(pixels) == SubSeq(Pattern, 1, MaxLen)

\* response.status().is_success() accepting every status
is_success_any(status) == TRUE

\* response.status().is_success(): 200..299
is_success(status) == status >= 200 /\ status < 300

Abort ==
    /\ cpc'      = "done"
    /\ exitCode' = 1

\* a new run of the client: Args::parse
ClientStart ==
    /\ cpc \in { "idle", "done" }
    /\ \E path \in Paths : cl' = [NoLocals EXCEPT !.path = path]
    /\ cpc'      = "load_config"
    /\ clip0'    = clipboard
    /\ exitCode' = -1
    /\ posts'    = 0
    /\ UNCHANGED << clipboard, server, procs >>

ClientLoadConfig ==
    /\ cpc = "load_config"
    /\ \E ok \in BOOLEAN :
        IF ok THEN cpc' = "read" /\ UNCHANGED exitCode ELSE Abort
    /\ UNCHANGED << cl, clipboard, clip0, posts, server, procs >>

ClientReadFile ==
    /\ cpc = "read"
    /\ LET r == read_file(cl.path)
       IN  IF r.ok
           THEN cpc' = "load_image" /\ cl' = [cl EXCEPT !.data = r.data] /\ UNCHANGED exitCode
           ELSE Abort /\ UNCHANGED cl
    /\ UNCHANGED << clipboard, clip0, posts, server, procs >>

ClientLoadImage ==
    /\ cpc = "load_image"
    /\ LET r == load_from_memory(cl.data)
       IN  IF r.ok
           THEN cpc' = "write_png" /\ cl' = [cl EXCEPT !.pixels = r.pixels] /\ UNCHANGED exitCode
           ELSE Abort /\ UNCHANGED cl
    /\ UNCHANGED << clipboard, clip0, posts, server, procs >>

\* write_to and the base64 encoding of the buffer
ClientEncode ==
    /\ cpc = "write_png"
    /\ \E ok \in BOOLEAN :
        IF ok
        THEN /\ cpc' = "post"
             /\ cl'  = [cl EXCEPT !.png = write_png(cl.pixels),
                                  !.sent = Base64Encode(write_png(cl.pixels))]
             /\ UNCHANGED exitCode
        ELSE Abort /\ UNCHANGED cl
    /\ UNCHANGED << clipboard, clip0, posts, server, procs >>

\* client.post(..).send().await: the request fails, or a response arrives
ClientPost ==
    /\ cpc = "post"
    /\ posts' = posts + 1
    /\ \/ Abort /\ UNCHANGED cl
       \/ \E st \in Statuses, b \in BodyKinds, u \in Urls :
            /\ cpc' = "status"
            /\ cl'  = [cl EXCEPT !.status = st, !.body = b,
                                  !.bodyUrl = IF b = "url" THEN u ELSE ""]
            /\ UNCHANGED exitCode
    /\ UNCHANGED << clipboard, clip0, server, procs >>

ClientCheckStatus ==
    /\ cpc = "status"
    /\ IF is_success(cl.status) THEN cpc' = "json" /\ UNCHANGED exitCode ELSE Abort
    /\ UNCHANGED << cl, clipboard, clip0, posts, server, procs >>

\* response.json() and upload_response["url"].as_str()
ClientParse ==
    /\ cpc = "json"
    /\ IF cl.body = "url"
       THEN cpc' = "clipboard" /\ cl' = [cl EXCEPT !.url = cl.bodyUrl] /\ UNCHANGED exitCode
       ELSE Abort /\ UNCHANGED cl
    /\ UNCHANGED << clipboard, clip0, posts, server, procs >>

\* ClipboardProvider::new()
ClientClipboard ==
    /\ cpc = "clipboard"
    /\ \E ok \in BOOLEAN :
        IF ok THEN cpc' = "set_contents" /\ UNCHANGED exitCode ELSE Abort
    /\ UNCHANGED << cl, clipboard, clip0, posts, server, procs >>

\* ctx.set_contents(url) and the return of main()
ClientSetContents ==
    /\ cpc = "set_contents"
    /\ \E ok \in BOOLEAN :
        IF ok
        THEN cpc' = "done" /\ exitCode' = 0 /\ clipboard' = cl.url
        ELSE Abort /\ UNCHANGED clipboard
    /\ UNCHANGED << cl, clip0, posts, server, procs >>

NextClient ==
    \/ ClientStart
    \/ ClientLoadConfig
    \/ ClientReadFile
    \/ ClientLoadImage
    \/ ClientEncode
    \/ ClientPost
    \/ ClientCheckStatus
    \/ ClientParse
    \/ ClientClipboard
    \/ ClientSetContents

SpecClient == Init /\ [][NextClient]_vars

\* C6: a run of the client either completes every step, and then ends with
\* exit status 0 and the clipboard holding exactly the url of the response,
\* or ends with a non-zero exit status and the clipboard as it was; while it
\* runs the clipboard is as it was; a response with a non-success status
\* (500) aborts the run with the clipboard as it was, and no run sends a
\* second POST.
C6_AllOrNothing ==
    /\ posts <= 1
    /\ cpc \notin { "idle", "done" } => (exitCode = -1 /\ clipboard = clip0)
    /\ cpc = "done" => exitCode \in { 0, 1 }
    /\ (cpc = "done" /\ exitCode = 0) =>
          /\ clipboard = cl.bodyUrl
          /\ cl.body = "url"
          /\ cl.status \in { 200, 201 }
          /\ posts = 1
          /\ cl.sent = Base64Encode(cl.png)
          /\ cl.data \in { "cat.jpg", "cat.png" }
    /\ (cpc = "done" /\ exitCode # 0) => clipboard = clip0
    /\ (cpc \notin { "idle", "status" } /\ cl.status \in { 401, 500 }) =>
          (cpc = "done" /\ exitCode = 1 /\ clipboard = clip0)

\* a second run, answered 500 with a JSON url in the body, has ended with
\* exit status 1 and the clipboard still holding the url of the first run
C6_Witness ==
    /\ cpc = "done"
    /\ exitCode = 1
    /\ cl.status = 500
    /\ cl.body = "url"
    /\ cl.bodyUrl = "http://host/b.png"
    /\ clip0 = "http://host/a.png"
    /\ clipboard = "http://host/a.png"

---------------------------------------------------------------------------
(* The server handling NumProcs requests concurrently, one task each. A     *)
(* task is interleaved with the others wherever it reads or writes the file *)
(* system; fs::write is File::create (create or truncate) followed by       *)
(* write_all from offset 0.                                                 *)

\* images that are no prefix of one another
ConcImages == { << 9, 200 >>, << 77, 255, 3 >> }

ImageUpload(header, text) ==
    [kind |-> "upload", header |-> header, filename |-> "/upload",
     fields |-> << [hasName |-> TRUE, name |-> "image", text |-> text] >>]

\* authorized uploads of the two images and of a text without padding, an
\* unauthorized upload, and the GETs of the generated names
ConcRequests ==
    { ImageUpload(api_key, Base64Encode(b)) : b \in ConcImages }
    \cup { ImageUpload(api_key, << 63, 48 >>),
           ImageUpload("guess", Base64Encode(<< 9, 200 >>)) }
    \cup { r \in GetRequests : r.filename \in Names }

\* write_all(bytes) from offset 0 into a file that holds old
Overlay(old, bytes) ==
    IF Len(bytes) >= Len(old) THEN bytes
    ELSE bytes \o SubSeq(old, Len(bytes) + 1, Len(old))

\* file_path naming the file of the task that generated a name last (a
\* path kept in state shared by the tasks)
file_path_shared(ps, p) ==
    LET named == { q \in Procs : ps[q].e.name # "" }
    IN  ps[CHOOSE q \in named : \A o \in named : o <= q].e.name

\* config.storage_path.join(&filename): the path task p writes to
file_path(ps, p) == ps[p].e.name

Finish(p, response) ==
    procs' = [procs EXCEPT ![p].pc = "done", ![p].resp = response]

Failed(status) == Response(status, NoUrl, "", NoBytes)

Others == << req, io, resp, issued, client >>

CAccept(p) ==
    /\ procs[p].pc = "idle"
    /\ \E r \in ConcRequests :
        procs' = [procs EXCEPT ![p].pc = "load_config", ![p].r = r]
    /\ UNCHANGED << storage, Others >>

\* load_config, by the upload handler and by the serve handler
CLoadConfig(p) ==
    /\ procs[p].pc = "load_config"
    /\ \E ok \in BOOLEAN :
        IF load_config(ok).ok
        THEN procs' = [procs EXCEPT
                          ![p].pc = IF procs[p].r.kind = "upload" THEN "check" ELSE "exists"]
        ELSE procs' = [procs EXCEPT ![p].pc = "done", ![p].e.cfgOk = FALSE,
                                    ![p].resp = Failed(500)]
    /\ UNCHANGED << storage, Others >>

\* the Authorization check, the multipart fields and the base64 decoding
CCheck(p) ==
    /\ procs[p].pc = "check"
    /\ LET r    == procs[p].r
           auth == auth_header(r)
           i    == FirstImage(r.fields)
       IN  IF ~auth.some \/ ~key_matches(auth.value, load_config(TRUE).api_key)
           THEN Finish(p, Failed(401))
           ELSE IF i = 0 THEN Finish(p, Failed(400))
           ELSE \E chunksOk \in BOOLEAN :
                  IF ~chunksOk
                  THEN procs' = [procs EXCEPT ![p].pc = "done", ![p].e.chunksOk = FALSE,
                                              ![p].resp = Failed(500)]
                  ELSE LET decoded == Base64Decode(r.fields[i].text)
                       IN  IF ~decoded.ok THEN Finish(p, Failed(400))
                           ELSE procs' = [procs EXCEPT ![p].pc = "generate",
                                                       ![p].bytes = decoded.bytes]
    /\ UNCHANGED << storage, Others >>

CGenerate(p) ==
    /\ procs[p].pc = "generate"
    /\ \E name \in generate_filename :
        procs' = [procs EXCEPT ![p].pc = "create", ![p].e.name = name]
    /\ UNCHANGED << storage, Others >>

\* fs::write, first half: File::create
CCreate(p) ==
    /\ procs[p].pc = "create"
    /\ \/ /\ storage' = [storage EXCEPT ![file_path(procs, p)] = File(NoBytes)]
          /\ procs'   = [procs EXCEPT ![p].pc = "write"]
       \/ /\ procs' = [procs EXCEPT ![p].pc = "done", ![p].e.write = "create_failed",
                                    ![p].resp = Failed(500)]
          /\ UNCHANGED storage
    /\ UNCHANGED Others

\* fs::write, second half: write_all, which may fail after written bytes
CWrite(p) ==
    /\ procs[p].pc = "write"
    /\ LET path == file_path(procs, p)
           old  == storage[path].bytes
       IN  \/ /\ storage' = [storage EXCEPT ![path] = File(Overlay(old, procs[p].bytes))]
              /\ procs'   = [procs EXCEPT ![p].pc = "respond"]
           \/ \E k \in 0..(Len(procs[p].bytes) - 1) :
                /\ storage' = [storage EXCEPT
                                  ![path] = File(Overlay(old, SubSeq(procs[p].bytes, 1, k)))]
                /\ procs'   = [procs EXCEPT ![p].pc = "done", ![p].e.write = "write_failed",
                                            ![p].e.written = k, ![p].resp = Failed(500)]
    /\ UNCHANGED Others

CRespond(p) ==
    /\ procs[p].pc = "respond"
    /\ Finish(p, Response(200, << load_config(TRUE).server_url, procs[p].e.name >>,
                          "application/json", NoBytes))
    /\ UNCHANGED << storage, Others >>

\* file_path.exists()
CExists(p) ==
    /\ procs[p].pc = "exists"
    /\ IF storage[procs[p].r.filename].exists
       THEN procs' = [procs EXCEPT ![p].pc = "read"]
       ELSE Finish(p, Failed(404))
    /\ UNCHANGED << storage, Others >>

\* fs::read
CRead(p) ==
    /\ procs[p].pc = "read"
    /\ \/ Finish(p, Response(200, NoUrl, "image/png", storage[procs[p].r.filename].bytes))
       \/ procs' = [procs EXCEPT ![p].pc = "done", ![p].e.readOk = FALSE,
                                 ![p].resp = Failed(500)]
    /\ UNCHANGED << storage, Others >>

NextConc ==
    \E p \in Procs :
        \/ CAccept(p)
        \/ CLoadConfig(p)
        \/ CCheck(p)
        \/ CGenerate(p)
        \/ CCreate(p)
        \/ CWrite(p)
        \/ CRespond(p)
        \/ CExists(p)
        \/ CRead(p)

SpecConc == Init /\ [][NextConc]_vars

---------------------------------------------------------------------------
\* the storage left by the requests of the tasks handled one after another,
\* in the given order, each meeting the I/O outcomes it met
RECURSIVE RunInOrder(_, _, _)
RunInOrder(order, i, st) ==
    IF i > Len(order) THEN st
    ELSE LET t == procs[order[i]]
         IN  RunInOrder(order, i + 1,
                        IF t.r.kind = "upload" THEN upload(st, t.r, t.e, t.e.name).storage
                        ELSE st)

Orders == { o \in [1..NumProcs -> Procs] : \A i, j \in 1..NumProcs : o[i] = o[j] => i = j }

SequentialOutcomes == { RunInOrder(o, 1, InitStorage) : o \in Orders }

AllDone == \A p \in Procs : procs[p].pc = "done"

\* no other task has generated the name task p generated
OwnName(p) == \A q \in Procs \ {p} : procs[q].e.name # procs[p].e.name

\* the image bytes a well-formed text of a concurrent request stands for
ImageOf2(text) == CHOOSE b \in ConcImages : Base64Encode(b) = text

\* C10: under every interleaving of concurrently handled requests, an upload
\* whose generated filename no other upload generated ends, when answered
\* 200, with its own decoded bytes stored under its own name, and when all
\* requests are done and the generated filenames are distinct the storage is
\* the one some sequential execution of the same requests leaves.
C10_Independent ==
    /\ \A p \in Procs :
          (procs[p].pc = "done" /\ procs[p].resp.status = 200
                /\ procs[p].r.kind = "upload" /\ OwnName(p)) =>
             /\ procs[p].resp.url = << server_url, procs[p].e.name >>
             /\ storage[procs[p].e.name] = File(ImageOf2(procs[p].r.fields[1].text))
    /\ (AllDone /\ \A p \in Procs : procs[p].e.name # "" => OwnName(p)) =>
          storage \in SequentialOutcomes

\* two concurrently handled uploads of different images have ended under
\* different names, each with its own bytes
C10_Witness ==
    /\ AllDone
    /\ procs[1].resp.status = 200 /\ procs[2].resp.status = 200
    /\ procs[1].e.name = "a.png" /\ procs[2].e.name = "b.png"
    /\ storage["a.png"] = File(<< 9, 200 >>)
    /\ storage["b.png"] = File(<< 77, 255, 3 >>)

====
